---- MODULE Spec2Model ----
(***************************************************************************)
(* A model of the CHIP-8 interpreter core (src/src/chip8.rs) and of the    *)
(* host loop that drives it (src/src/main.rs).                             *)
(*                                                                         *)
(* The machine is the struct Chip8; every field is a variable.  The        *)
(* methods of Chip8 are operators on a record holding the fields, written  *)
(* statement by statement; the actions apply them to the variables.  A     *)
(* Rust panic (an index out of bounds, an arithmetic overflow in a build   *)
(* with overflow checks, an explicit panic!) ends the process: the record  *)
(* carries a field "panicked" and keeps the fields as they were when the   *)
(* panic was raised.                                                       *)
(***************************************************************************)
EXTENDS Integers, Sequences, FiniteSets, TLC

(***************************************************************************)
(* Program constants (chip8.rs:14-20, 80).                                 *)
(***************************************************************************)
MEMORY_SIZE == 4096
REGISTERS_SIZE == 16
STACK_SIZE == 16
DISPLAY_HEIGHT == 32
DISPLAY_WIDTH == 64
DISPLAY_SIZE == DISPLAY_HEIGHT * DISPLAY_WIDTH
KEYBOARD_SIZE == 16
MEMORY_START == 512

(***************************************************************************)
(* Bounds of the model.                                                    *)
(***************************************************************************)
\* run_cycle calls the host makes in one run
MaxCycles == 6
\* key presses the user makes in one run
MaxKeyPresses == 2
\* run_cycle calls in one run of the register-file programs
MaxLongCycles == 8
\* run_cycle calls in one run of the subroutine programs
MaxDeepCycles == 18
\* run_cycle calls in one run of the index-register programs
MaxIndexCycles == 260

VARIABLES
    i,               \* Chip8.i: index register (u16)
    pc,              \* Chip8.pc: program counter (u16)
    memory,          \* Chip8.memory: [u8; 4096]
    v,               \* Chip8.v: [u8; 16]
    stack,           \* Chip8.stack: [u16; 16]
    sp,              \* Chip8.sp (u16)
    dt,              \* Chip8.dt: delay timer (u8)
    st,              \* Chip8.st: sound timer (u8)
    keyboard,        \* Chip8.keyboard: [bool; 16]
    display,         \* Chip8.display: [bool; 2048]
    is_drawing,      \* Chip8.is_drawing
    panicked,        \* the process was ended by a panic
    overflow_checks, \* the build checks integer overflow (debug profile) or wraps (release)
    rom,             \* main.rs run(): the bytes read_rom returned
    loaded,          \* main.rs run(): load_rom has been called
    hist,            \* history: one record per run_cycle call, the fields before it
    presses          \* history: the number of set_key calls so far

vars == <<i, pc, memory, v, stack, sp, dt, st, keyboard, display, is_drawing,
          panicked, overflow_checks, rom, loaded, hist, presses>>

Byte == 0..255

(***************************************************************************)
(* Bit operations on unsigned integers, as Rust's &, |, ^, <<, >> do them. *)
(***************************************************************************)
Pow2(n) ==
    CASE n = 0 -> 1 [] n = 1 -> 2 [] n = 2 -> 4 [] n = 3 -> 8
      [] n = 4 -> 16 [] n = 5 -> 32 [] n = 6 -> 64 [] n = 7 -> 128
      [] n = 8 -> 256 [] n = 9 -> 512 [] n = 10 -> 1024 [] n = 11 -> 2048
      [] n = 12 -> 4096 [] n = 13 -> 8192 [] n = 14 -> 16384 [] n = 15 -> 32768
      [] n = 16 -> 65536

Shr(a, n) == a \div Pow2(n)

Bit(a, n) == Shr(a, n) % 2

RECURSIVE BitFold(_, _, _, _)
\* sum over the bit positions k < n of 2^k * f[bit k of a + 1][bit k of b + 1]
BitFold(f, a, b, n) ==
    IF n = 0 THEN 0
    ELSE Pow2(n - 1) * f[Bit(a, n - 1) + 1][Bit(b, n - 1) + 1] + BitFold(f, a, b, n - 1)

BitAnd(a, b) == BitFold(<<<<0, 0>>, <<0, 1>>>>, a, b, 16)
BitOr(a, b)  == BitFold(<<<<0, 1>>, <<1, 1>>>>, a, b, 16)
BitXor(a, b) == BitFold(<<<<0, 1>>, <<1, 0>>>>, a, b, 16)

(***************************************************************************)
(* The built-in digit sprites (chip8.rs:36-53).                            *)
(***************************************************************************)
CHAR_SPRITES ==
    << 240, 144, 144, 144, 240,    32,  96,  32,  32, 112,
       240,  16, 240, 128, 240,   240,  16, 240,  16, 240,
       144, 144, 240,  16,  16,   240, 128, 240,  16, 240,
       240, 128, 240, 144, 240,   240,  16,  32,  64,  64,
       240, 144, 240, 144, 240,   240, 144, 240,  16, 240,
       240, 144, 240, 144, 144,   224, 144, 224, 144, 224,
       240, 128, 128, 128, 240,   224, 144, 144, 144, 224,
       240, 128, 240, 128, 240,   240, 128, 240, 128, 128 >>

(***************************************************************************)
(* The machine as a record of the fields of Chip8, and the current one.    *)
(***************************************************************************)
Machine ==
    [ i |-> i, pc |-> pc, memory |-> memory, v |-> v, stack |-> stack, sp |-> sp,
      dt |-> dt, st |-> st, keyboard |-> keyboard, display |-> display,
      is_drawing |-> is_drawing, panicked |-> panicked ]

\* a panic raised while the fields are m
Panic(m) == [m EXCEPT !.panicked = TRUE]

\* Chip8::new (chip8.rs:131-152)
new ==
    [ i |-> 0,
      pc |-> MEMORY_START,
      memory |-> [a \in 0..(MEMORY_SIZE - 1) |->
                    IF a < Len(CHAR_SPRITES) THEN CHAR_SPRITES[a + 1] ELSE 0],
      v |-> [r \in 0..(REGISTERS_SIZE - 1) |-> 0],
      stack |-> [s \in 0..(STACK_SIZE - 1) |-> 0],
      sp |-> 0,
      dt |-> 0,
      st |-> 0,
      keyboard |-> [k \in 0..(KEYBOARD_SIZE - 1) |-> FALSE],
      display |-> [p \in 0..(DISPLAY_SIZE - 1) |-> FALSE],
      is_drawing |-> FALSE,
      panicked |-> FALSE ]

\* load_rom copying to the start of memory instead of MEMORY_START
load_rom_at_zero(m, bytes) ==
    [m EXCEPT !.memory = [a \in 0..(MEMORY_SIZE - 1) |->
                            IF a < Len(bytes) THEN bytes[a + 1] ELSE m.memory[a]]]

RECURSIVE load_rom_from(_, _, _)
\* the loop of load_rom from index n on (n counts from 0, as in the source)
load_rom_from(m, bytes, n) ==
    IF n >= Len(bytes) THEN m
    ELSE IF MEMORY_START + n >= MEMORY_SIZE THEN Panic(m)
    ELSE load_rom_from([m EXCEPT !.memory[MEMORY_START + n] = bytes[n + 1]], bytes, n + 1)

\* Chip8::load_rom (chip8.rs:154-159)
load_rom(m, bytes) == load_rom_from(m, bytes, 0)

\* Chip8::set_key (chip8.rs:165-167)
set_key(m, key) ==
    IF key >= KEYBOARD_SIZE THEN Panic(m)
    ELSE [m EXCEPT !.keyboard[key] = TRUE]

RECURSIVE reset_keys_from(_, _)
reset_keys_from(m, k) ==
    IF k >= KEYBOARD_SIZE THEN m
    ELSE reset_keys_from([m EXCEPT !.keyboard[k] = FALSE], k + 1)

\* reset_all_keys leaving the latch as it is
reset_all_keys_skipped(m) == m

\* Chip8::reset_all_keys (chip8.rs:169-173)
reset_all_keys(m) == reset_keys_from(m, 0)

\* update_timers without the guards: a timer at 0 wraps to 255
update_timers_wrapping(m) ==
    [m EXCEPT !.dt = (m.dt - 1) % 256, !.st = (m.st - 1) % 256]

\* Chip8::update_timers (chip8.rs:519-527)
update_timers(m) ==
    LET m1 == IF m.dt > 0 THEN [m EXCEPT !.dt = m.dt - 1] ELSE m
    IN  IF m1.st > 0 THEN [m1 EXCEPT !.st = m1.st - 1] ELSE m1

(***************************************************************************)
(* u16 arithmetic on the program counter, the stack pointer and the index  *)
(* register: a result outside 0..65535 is a panic in a build with overflow *)
(* checks and wraps otherwise.                                             *)
(***************************************************************************)
set_pc(m, n) ==
    IF n < 0 \/ n > 65535
    THEN IF overflow_checks THEN Panic(m) ELSE [m EXCEPT !.pc = n % 65536]
    ELSE [m EXCEPT !.pc = n]

set_i(m, n) ==
    IF n < 0 \/ n > 65535
    THEN IF overflow_checks THEN Panic(m) ELSE [m EXCEPT !.i = n % 65536]
    ELSE [m EXCEPT !.i = n]

set_sp(m, n) ==
    IF n < 0 \/ n > 65535
    THEN IF overflow_checks THEN Panic(m) ELSE [m EXCEPT !.sp = n % 65536]
    ELSE [m EXCEPT !.sp = n]

\* u8 wrapping_add and wrapping_sub
wrapping_add(a, b) == (a + b) % 256
wrapping_sub(a, b) == (a - b) % 256

(***************************************************************************)
(* process_opcode (chip8.rs:191-517), one operator per match arm.  m is    *)
(* the machine after run_cycle advanced pc; x, y, kk, nnn, nibble are the  *)
(* fields decoded at chip8.rs:202-206.                                     *)
(***************************************************************************)
field_x(opcode) == BitAnd(Shr(opcode, 8), 15)
field_y(opcode) == BitAnd(Shr(opcode, 4), 15)
field_kk(opcode) == BitAnd(opcode, 255)
field_nnn(opcode) == BitAnd(opcode, 4095)
field_nibble(opcode) == BitAnd(opcode, 15)

\* 00E0 without the dirty flag
op_CLS_not_dirty(m) ==
    [m EXCEPT !.display = [p \in 0..(DISPLAY_SIZE - 1) |-> FALSE]]

\* 00E0 - CLS (chip8.rs:212-217)
op_CLS(m) ==
    [m EXCEPT !.display = [p \in 0..(DISPLAY_SIZE - 1) |-> FALSE], !.is_drawing = TRUE]

\* 00EE reading the stack before it decrements sp
op_RET_read_first(m) ==
    IF m.sp >= STACK_SIZE THEN Panic(m)
    ELSE set_sp([m EXCEPT !.pc = m.stack[m.sp]], m.sp - 1)

\* 00EE - RET (chip8.rs:218-223)
op_RET(m) ==
    LET m1 == set_sp(m, m.sp - 1)
    IN  IF m1.panicked THEN m1
        ELSE IF m1.sp >= STACK_SIZE THEN Panic(m1)
        ELSE [m1 EXCEPT !.pc = m1.stack[m1.sp]]

\* 0nnn - SYS addr (chip8.rs:224-229)
op_SYS(m, nnn) == [m EXCEPT !.pc = nnn]

\* 1nnn - JP addr (chip8.rs:232-236)
op_JP(m, nnn) == [m EXCEPT !.pc = nnn]

\* 2nnn with the stack index wrapped into the 16 slots instead of checked
op_CALL_wrapping(m, nnn) ==
    LET m1 == [m EXCEPT !.stack[m.sp % STACK_SIZE] = m.pc]
        m2 == set_sp(m1, m1.sp + 1)
    IN  IF m2.panicked THEN m2 ELSE [m2 EXCEPT !.pc = nnn]

\* 2nnn - CALL addr (chip8.rs:237-243)
op_CALL(m, nnn) ==
    IF m.sp >= STACK_SIZE THEN Panic(m)
    ELSE LET m1 == [m EXCEPT !.stack[m.sp] = m.pc]
             m2 == set_sp(m1, m1.sp + 1)
         IN  IF m2.panicked THEN m2 ELSE [m2 EXCEPT !.pc = nnn]

\* 3xkk skipping two instructions instead of one
op_SE_byte_far(m, x, kk) == IF m.v[x] = kk THEN set_pc(m, m.pc + 4) ELSE m

\* 3xkk - SE Vx, byte (chip8.rs:244-250)
op_SE_byte(m, x, kk) == IF m.v[x] = kk THEN set_pc(m, m.pc + 2) ELSE m

\* 4xkk - SNE Vx, byte (chip8.rs:251-257)
op_SNE_byte(m, x, kk) == IF m.v[x] # kk THEN set_pc(m, m.pc + 2) ELSE m

\* 5xy0 - SE Vx, Vy (chip8.rs:258-264): the arm matches every 5xyN
op_SE_reg(m, x, y) == IF m.v[x] = m.v[y] THEN set_pc(m, m.pc + 2) ELSE m

\* 6xkk - LD Vx, byte (chip8.rs:265-269)
op_LD_byte(m, x, kk) == [m EXCEPT !.v[x] = kk]

\* 7xkk writing the carry to VF, as 8xy4 does
op_ADD_byte_with_carry(m, x, kk) ==
    LET m1 == [m EXCEPT !.v[15] = IF kk > 255 - m.v[x] THEN 1 ELSE 0]
    IN  [m1 EXCEPT !.v[x] = wrapping_add(m1.v[x], kk)]

\* 7xkk - ADD Vx, byte (chip8.rs:270-274)
op_ADD_byte(m, x, kk) == [m EXCEPT !.v[x] = wrapping_add(m.v[x], kk)]

\* 8xy0 - LD Vx, Vy (chip8.rs:277-281)
op_LD_reg(m, x, y) == [m EXCEPT !.v[x] = m.v[y]]

\* 8xy1 - OR Vx, Vy (chip8.rs:282-286)
op_OR(m, x, y) == [m EXCEPT !.v[x] = BitOr(m.v[x], m.v[y])]

\* 8xy2 - AND Vx, Vy (chip8.rs:287-291)
op_AND(m, x, y) == [m EXCEPT !.v[x] = BitAnd(m.v[x], m.v[y])]

\* 8xy3 - XOR Vx, Vy (chip8.rs:292-296)
op_XOR(m, x, y) == [m EXCEPT !.v[x] = BitXor(m.v[x], m.v[y])]

\* 8xy4 - ADD Vx, Vy (chip8.rs:297-309): VF is written first, then Vx is
\* computed from the registers as they are after that write
op_ADD_reg(m, x, y) ==
    LET m1 == [m EXCEPT !.v[15] = IF m.v[y] > 255 - m.v[x] THEN 1 ELSE 0]
    IN  [m1 EXCEPT !.v[x] = wrapping_add(m1.v[x], m1.v[y])]

\* 8xy5 - SUB Vx, Vy (chip8.rs:310-320)
op_SUB(m, x, y) ==
    LET m1 == [m EXCEPT !.v[15] = IF m.v[x] > m.v[y] THEN 1 ELSE 0]
    IN  [m1 EXCEPT !.v[x] = wrapping_sub(m1.v[x], m1.v[y])]

\* 8xy6 - SHR Vx (chip8.rs:321-327)
op_SHR(m, x) ==
    LET m1 == [m EXCEPT !.v[15] = BitAnd(m.v[x], 1)]
    IN  [m1 EXCEPT !.v[x] = Shr(m1.v[x], 1)]

\* 8xy7 - SUBN Vx, Vy (chip8.rs:328-338)
op_SUBN(m, x, y) ==
    LET m1 == [m EXCEPT !.v[15] = IF m.v[y] > m.v[x] THEN 1 ELSE 0]
    IN  [m1 EXCEPT !.v[x] = wrapping_sub(m1.v[y], m1.v[x])]

\* 8xyE - SHL Vx (chip8.rs:339-345)
op_SHL(m, x) ==
    LET m1 == [m EXCEPT !.v[15] = Shr(BitAnd(m.v[x], 128), 7)]
    IN  [m1 EXCEPT !.v[x] = (m1.v[x] * 2) % 256]

\* 9xy0 - SNE Vx, Vy (chip8.rs:353-359): the arm matches every 9xyN
op_SNE_reg(m, x, y) == IF m.v[x] # m.v[y] THEN set_pc(m, m.pc + 2) ELSE m

\* Annn - LD I, addr (chip8.rs:360-364)
op_LD_I(m, nnn) == [m EXCEPT !.i = nnn]

\* Bnnn - JP V0, addr (chip8.rs:365-369)
op_JP_V0(m, nnn) == set_pc(m, nnn + m.v[0])

\* Cxkk - RND Vx, byte (chip8.rs:370-375); random is what rand::random() returned
op_RND(m, x, kk, random) == [m EXCEPT !.v[x] = BitAnd(random, kk)]

RECURSIVE draw_pixels_clipped(_, _, _, _, _, _)
\* the inner loop of Dxyn with the part of the row past the right or the bottom
\* edge left out instead of wrapped
draw_pixels_clipped(m, x0, y0, line, buffer, pixel) ==
    IF pixel >= 8 THEN m
    ELSE IF /\ BitAnd(buffer, Shr(128, pixel)) # 0
            /\ (x0 % DISPLAY_WIDTH) + pixel < DISPLAY_WIDTH
            /\ (y0 % DISPLAY_HEIGHT) + line < DISPLAY_HEIGHT
    THEN LET idx == ((x0 + pixel) % DISPLAY_WIDTH)
                      + ((y0 + line) % DISPLAY_HEIGHT) * DISPLAY_WIDTH
             m1 == IF m.display[idx] THEN [m EXCEPT !.v[15] = 1] ELSE m
             m2 == [m1 EXCEPT !.display[idx] = ~m1.display[idx]]
         IN  draw_pixels_clipped(m2, x0, y0, line, buffer, pixel + 1)
    ELSE draw_pixels_clipped(m, x0, y0, line, buffer, pixel + 1)

RECURSIVE draw_pixels_or(_, _, _, _, _, _)
\* the inner loop of Dxyn setting the pixels instead of toggling them
draw_pixels_or(m, x0, y0, line, buffer, pixel) ==
    IF pixel >= 8 THEN m
    ELSE IF BitAnd(buffer, Shr(128, pixel)) # 0
    THEN LET idx == ((x0 + pixel) % DISPLAY_WIDTH)
                      + ((y0 + line) % DISPLAY_HEIGHT) * DISPLAY_WIDTH
             m1 == IF m.display[idx] THEN [m EXCEPT !.v[15] = 1] ELSE m
             m2 == [m1 EXCEPT !.display[idx] = TRUE]
         IN  draw_pixels_or(m2, x0, y0, line, buffer, pixel + 1)
    ELSE draw_pixels_or(m, x0, y0, line, buffer, pixel + 1)

RECURSIVE draw_pixels(_, _, _, _, _, _)
\* the inner loop of Dxyn (chip8.rs:393-407) from column pixel on; x0, y0 are the
\* origin read at chip8.rs:385-386, buffer the row's byte
draw_pixels(m, x0, y0, line, buffer, pixel) ==
    IF pixel >= 8 THEN m
    ELSE IF BitAnd(buffer, Shr(128, pixel)) # 0
    THEN LET idx == ((x0 + pixel) % DISPLAY_WIDTH)
                      + ((y0 + line) % DISPLAY_HEIGHT) * DISPLAY_WIDTH
             m1 == IF m.display[idx] THEN [m EXCEPT !.v[15] = 1] ELSE m
             m2 == [m1 EXCEPT !.display[idx] = ~m1.display[idx]]
         IN  draw_pixels(m2, x0, y0, line, buffer, pixel + 1)
    ELSE draw_pixels(m, x0, y0, line, buffer, pixel + 1)

RECURSIVE draw_lines(_, _, _, _, _)
\* the outer loop of Dxyn (chip8.rs:390-408) from row line on
draw_lines(m, x0, y0, size, line) ==
    IF line >= size THEN m
    ELSE IF m.i + line >= MEMORY_SIZE THEN Panic(m)
    ELSE draw_lines(draw_pixels(m, x0, y0, line, m.memory[m.i + line], 0),
                    x0, y0, size, line + 1)

\* Dxyn - DRW Vx, Vy, nibble (chip8.rs:376-410)
op_DRW(m, x, y, nibble) ==
    LET x0 == m.v[x]
        y0 == m.v[y]
        m1 == [m EXCEPT !.v[15] = 0]
        m2 == draw_lines(m1, x0, y0, nibble, 0)
    IN  IF m2.panicked THEN m2 ELSE [m2 EXCEPT !.is_drawing = TRUE]

\* Ex9E - SKP Vx (chip8.rs:413-419)
op_SKP(m, x) ==
    IF m.v[x] >= KEYBOARD_SIZE THEN Panic(m)
    ELSE IF m.keyboard[m.v[x]] THEN set_pc(m, m.pc + 2) ELSE m

\* ExA1 without the reset of the latch when the key is pressed
op_SKNP_no_reset(m, x) ==
    IF m.v[x] >= KEYBOARD_SIZE THEN Panic(m)
    ELSE IF ~m.keyboard[m.v[x]] THEN set_pc(m, m.pc + 2) ELSE m

\* ExA1 - SKNP Vx (chip8.rs:420-428)
op_SKNP(m, x) ==
    IF m.v[x] >= KEYBOARD_SIZE THEN Panic(m)
    ELSE IF ~m.keyboard[m.v[x]] THEN set_pc(m, m.pc + 2) ELSE reset_all_keys(m)

\* Fx07 - LD Vx, DT (chip8.rs:438-442)
op_LD_Vx_DT(m, x) == [m EXCEPT !.v[x] = m.dt]

\* the scan of Fx0A taken from the top: the last latched slot
first_key_descending(kb, k) ==
    IF \A s \in k..(KEYBOARD_SIZE - 1) : ~kb[s] THEN KEYBOARD_SIZE
    ELSE CHOOSE s \in k..(KEYBOARD_SIZE - 1) :
            kb[s] /\ \A t \in k..(KEYBOARD_SIZE - 1) : kb[t] => t <= s

RECURSIVE first_key(_, _)
\* the scan of Fx0A (chip8.rs:449-455) from slot k on: the first latched slot,
\* or KEYBOARD_SIZE when the loop ends without a break
first_key(kb, k) ==
    IF k >= KEYBOARD_SIZE THEN KEYBOARD_SIZE
    ELSE IF kb[k] THEN k
    ELSE first_key(kb, k + 1)

\* Fx0A without the rewind of pc when no key is latched
op_LD_Vx_K_no_rewind(m, x) ==
    LET k == first_key(m.keyboard, 0)
    IN  IF k = KEYBOARD_SIZE THEN m
        ELSE reset_all_keys([m EXCEPT !.v[x] = k])

\* Fx0A rewinding pc by one byte instead of one instruction
op_LD_Vx_K_rewind_one(m, x) ==
    LET k == first_key(m.keyboard, 0)
    IN  IF k = KEYBOARD_SIZE THEN set_pc(m, m.pc - 1)
        ELSE reset_all_keys([m EXCEPT !.v[x] = k])

\* Fx0A - LD Vx, K (chip8.rs:443-462)
op_LD_Vx_K(m, x) ==
    LET k == first_key(m.keyboard, 0)
        is_blocking == (k = KEYBOARD_SIZE)
    IN  IF is_blocking THEN set_pc(m, m.pc - 2)
        ELSE reset_all_keys([m EXCEPT !.v[x] = k])

\* Fx15 - LD DT, Vx (chip8.rs:463-467)
op_LD_DT(m, x) == [m EXCEPT !.dt = m.v[x]]

\* Fx18 - LD ST, Vx (chip8.rs:468-472)
op_LD_ST(m, x) == [m EXCEPT !.st = m.v[x]]

\* Fx1E - ADD I, Vx (chip8.rs:473-477)
op_ADD_I(m, x) == set_i(m, m.i + m.v[x])

\* Fx29 - LD F, Vx (chip8.rs:478-482)
op_LD_F(m, x) == set_i(m, m.v[x] * 5)

\* Fx33 storing the digits one byte too low, at I - 1, I, I + 1
op_LD_B_below(m, x) ==
    IF m.i - 1 < 0 \/ m.i + 1 >= MEMORY_SIZE THEN Panic(m)
    ELSE [m EXCEPT !.memory[m.i - 1] = m.v[x] \div 100,
                   !.memory[m.i] = (m.v[x] \div 10) % 10,
                   !.memory[m.i + 1] = m.v[x] % 10]

\* Fx33 with the tens digit not reduced modulo 10
op_LD_B_tens(m, x) ==
    IF m.i + 2 >= MEMORY_SIZE THEN Panic(m)
    ELSE [m EXCEPT !.memory[m.i] = m.v[x] \div 100,
                   !.memory[m.i + 1] = m.v[x] \div 10,
                   !.memory[m.i + 2] = m.v[x] % 10]

\* Fx33 - LD B, Vx (chip8.rs:483-489): three stores, each bounds-checked
op_LD_B(m, x) ==
    IF m.i >= MEMORY_SIZE THEN Panic(m)
    ELSE LET m1 == [m EXCEPT !.memory[m.i] = m.v[x] \div 100]
         IN  IF m1.i + 1 >= MEMORY_SIZE THEN Panic(m1)
             ELSE LET m2 == [m1 EXCEPT !.memory[m1.i + 1] = (m1.v[x] \div 10) % 10]
                  IN  IF m2.i + 2 >= MEMORY_SIZE THEN Panic(m2)
                      ELSE [m2 EXCEPT !.memory[m2.i + 2] = m2.v[x] % 10]

RECURSIVE store_regs_exclusive(_, _, _)
\* the loop of Fx55 over 0..x instead of 0..=x
store_regs_exclusive(m, x, k) ==
    IF k >= x THEN m
    ELSE IF m.i + k >= MEMORY_SIZE THEN Panic(m)
    ELSE store_regs_exclusive([m EXCEPT !.memory[m.i + k] = m.v[k]], x, k + 1)

RECURSIVE store_regs(_, _, _)
\* the loop of Fx55 (chip8.rs:493-495) from register k on
store_regs(m, x, k) ==
    IF k > x THEN m
    ELSE IF m.i + k >= MEMORY_SIZE THEN Panic(m)
    ELSE store_regs([m EXCEPT !.memory[m.i + k] = m.v[k]], x, k + 1)

\* Fx55 - LD [I], Vx (chip8.rs:490-496)
op_LD_mem_Vx(m, x) == store_regs(m, x, 0)

RECURSIVE load_regs(_, _, _)
\* the loop of Fx65 (chip8.rs:500-502) from register k on
load_regs(m, x, k) ==
    IF k > x THEN m
    ELSE IF m.i + k >= MEMORY_SIZE THEN Panic(m)
    ELSE load_regs([m EXCEPT !.v[k] = m.memory[m.i + k]], x, k + 1)

\* Fx65 - LD Vx, [I] (chip8.rs:497-503)
op_LD_Vx_mem(m, x) == load_regs(m, x, 0)

\* the match of process_opcode (chip8.rs:209-516)
process_opcode(m, opcode, random) ==
    LET x == field_x(opcode)
        y == field_y(opcode)
        kk == field_kk(opcode)
        nnn == field_nnn(opcode)
        nibble == field_nibble(opcode)
        top == BitAnd(opcode, 61440)
    IN  CASE top = 0 ->
               (CASE nibble = 0 -> op_CLS(m)
                  [] nibble = 14 -> op_RET(m)
                  [] OTHER -> op_SYS(m, nnn))
          [] top = 4096 -> op_JP(m, nnn)
          [] top = 8192 -> op_CALL(m, nnn)
          [] top = 12288 -> op_SE_byte(m, x, kk)
          [] top = 16384 -> op_SNE_byte(m, x, kk)
          [] top = 20480 -> op_SE_reg(m, x, y)
          [] top = 24576 -> op_LD_byte(m, x, kk)
          [] top = 28672 -> op_ADD_byte(m, x, kk)
          [] top = 32768 ->
               (CASE nibble = 0 -> op_LD_reg(m, x, y)
                  [] nibble = 1 -> op_OR(m, x, y)
                  [] nibble = 2 -> op_AND(m, x, y)
                  [] nibble = 3 -> op_XOR(m, x, y)
                  [] nibble = 4 -> op_ADD_reg(m, x, y)
                  [] nibble = 5 -> op_SUB(m, x, y)
                  [] nibble = 6 -> op_SHR(m, x)
                  [] nibble = 7 -> op_SUBN(m, x, y)
                  [] nibble = 14 -> op_SHL(m, x)
                  [] OTHER -> Panic(m))
          [] top = 36864 -> op_SNE_reg(m, x, y)
          [] top = 40960 -> op_LD_I(m, nnn)
          [] top = 45056 -> op_JP_V0(m, nnn)
          [] top = 49152 -> op_RND(m, x, kk, random)
          [] top = 53248 -> op_DRW(m, x, y, nibble)
          [] top = 57344 ->
               (CASE kk = 158 -> op_SKP(m, x)
                  [] kk = 161 -> op_SKNP(m, x)
                  [] OTHER -> Panic(m))
          [] top = 61440 ->
               (CASE kk = 7 -> op_LD_Vx_DT(m, x)
                  [] kk = 10 -> op_LD_Vx_K(m, x)
                  [] kk = 21 -> op_LD_DT(m, x)
                  [] kk = 24 -> op_LD_ST(m, x)
                  [] kk = 30 -> op_ADD_I(m, x)
                  [] kk = 41 -> op_LD_F(m, x)
                  [] kk = 51 -> op_LD_B(m, x)
                  [] kk = 85 -> op_LD_mem_Vx(m, x)
                  [] kk = 101 -> op_LD_Vx_mem(m, x)
                  [] OTHER -> Panic(m))
          [] OTHER -> Panic(m)

\* the fetch of run_cycle (chip8.rs:177-179): the instruction word, or -1 when
\* one of the two reads is out of bounds
fetch(m) ==
    IF m.pc >= MEMORY_SIZE \/ m.pc + 1 >= MEMORY_SIZE THEN -1
    ELSE BitOr(m.memory[m.pc] * 256, m.memory[m.pc + 1])

\* run_cycle with the timers ticked before the instruction instead of after it
run_cycle_tick_first(m, random) ==
    LET opcode == fetch(m)
    IN  IF opcode = -1 THEN Panic(m)
        ELSE LET m1 == set_pc(m, m.pc + 2)
             IN  IF m1.panicked THEN m1
                 ELSE process_opcode(update_timers(m1), opcode, random)

\* Chip8::run_cycle (chip8.rs:175-189)
run_cycle(m, random) ==
    LET opcode == fetch(m)
    IN  IF opcode = -1 THEN Panic(m)
        ELSE LET m1 == set_pc(m, m.pc + 2)
             IN  IF m1.panicked THEN m1
                 ELSE LET m2 == process_opcode(m1, opcode, random)
                      IN  IF m2.panicked THEN m2 ELSE update_timers(m2)

(***************************************************************************)
(* The host (main.rs run, lines 29-70): new, read_rom, load_rom, then a    *)
(* loop that calls run_cycle when the cycle period has elapsed, clears     *)
(* is_drawing after rendering, and calls set_key on a key press.  The      *)
(* clock and the terminal are outside the model: each of the three may or  *)
(* may not happen in an iteration.                                         *)
(***************************************************************************)
\* the pixels set in a framebuffer
Lit(d) == {p \in 0..(DISPLAY_SIZE - 1) : d[p]}

\* the keys latched in a keyboard array
Latched(kb) == {k \in 0..(KEYBOARD_SIZE - 1) : kb[k]}

\* what the history keeps of a cycle: the word fetched and the registers, the
\* timers, the stack, the set pixels and the latched keys before it
HistEntry(m, opcode) ==
    [ opcode |-> opcode, pc |-> m.pc, i |-> m.i, v |-> m.v, stack |-> m.stack,
      sp |-> m.sp, dt |-> m.dt, st |-> m.st, lit |-> Lit(m.display),
      keys |-> Latched(m.keyboard) ]

\* the machine's variables take the fields of m
Becomes(m) ==
    /\ i' = m.i
    /\ pc' = m.pc
    /\ memory' = m.memory
    /\ v' = m.v
    /\ stack' = m.stack
    /\ sp' = m.sp
    /\ dt' = m.dt
    /\ st' = m.st
    /\ keyboard' = m.keyboard
    /\ display' = m.display
    /\ is_drawing' = m.is_drawing
    /\ panicked' = m.panicked

\* the values rand::random() returns in the model
RandomBytes == {0, 90, 255}

\* rand::random() is called by Cxkk only (chip8.rs:373)
RandomFor(opcode) ==
    IF opcode # -1 /\ BitAnd(opcode, 61440) = 49152 THEN RandomBytes ELSE {0}

\* the keys the user presses in the model (main.rs key_map maps to 0..15)
HostKeys == {3, 12}

\* main.rs:30-32: a fresh machine and the ROM read from the file, one of roms
InitWith(roms) ==
    /\ i = new.i
    /\ pc = new.pc
    /\ memory = new.memory
    /\ v = new.v
    /\ stack = new.stack
    /\ sp = new.sp
    /\ dt = new.dt
    /\ st = new.st
    /\ keyboard = new.keyboard
    /\ display = new.display
    /\ is_drawing = new.is_drawing
    /\ panicked = new.panicked
    /\ overflow_checks \in BOOLEAN
    /\ rom \in roms
    /\ loaded = FALSE
    /\ hist = <<>>
    /\ presses = 0

\* main.rs:33
LoadRom ==
    /\ ~loaded
    /\ ~panicked
    /\ Becomes(load_rom(Machine, rom))
    /\ loaded' = TRUE
    /\ UNCHANGED <<overflow_checks, rom, hist, presses>>

\* main.rs:42-45, for a run of at most limit cycles
CycleUpTo(limit) ==
    /\ loaded
    /\ ~panicked
    /\ Len(hist) < limit
    /\ \E random \in RandomFor(fetch(Machine)) :
          Becomes(run_cycle(Machine, random))
    /\ hist' = Append(hist, HistEntry(Machine, fetch(Machine)))
    /\ UNCHANGED <<overflow_checks, rom, loaded, presses>>

RunCycle == CycleUpTo(MaxCycles)

RunLongCycle == CycleUpTo(MaxLongCycles)

RunDeepCycle == CycleUpTo(MaxDeepCycles)

RunIndexCycle == CycleUpTo(MaxIndexCycles)

\* main.rs:47-52
Refresh ==
    /\ loaded
    /\ ~panicked
    /\ is_drawing
    /\ is_drawing' = FALSE
    /\ UNCHANGED <<i, pc, memory, v, stack, sp, dt, st, keyboard, display,
                   panicked, overflow_checks, rom, loaded, hist, presses>>

\* main.rs:54-63
SetKey ==
    /\ loaded
    /\ ~panicked
    /\ presses < MaxKeyPresses
    /\ \E key \in HostKeys : Becomes(set_key(Machine, key))
    /\ presses' = presses + 1
    /\ UNCHANGED <<overflow_checks, rom, loaded, hist>>

(***************************************************************************)
(* Programs.  A ROM is a sequence of bytes; W(hi, lo) is one instruction.  *)
(***************************************************************************)
W(hi, lo) == <<hi, lo>>

\* 6xkk
LD(x, kk) == W(96 + x, kk)
\* 7xkk
ADD(x, kk) == W(112 + x, kk)
\* 8xyN
ALU(x, y, n) == W(128 + x, 16 * y + n)
\* Annn
LDI(nnn) == W(160 + (nnn \div 256), nnn % 256)
\* 1nnn
JP(nnn) == W(16 + (nnn \div 256), nnn % 256)
\* Dxyn
DRW(x, y, n) == W(208 + x, 16 * y + n)
\* Fxkk
FX(x, kk) == W(240 + x, kk)

\* 2nnn
CALL(nnn) == W(32 + (nnn \div 256), nnn % 256)
\* 00EE
RET == W(0, 238)

\* Ex9E
SKP(x) == W(224 + x, 158)
\* ExA1
SKNP(x) == W(224 + x, 161)

\* 00E0
CLS == W(0, 224)

\* 3xkk
SE(x, kk) == W(48 + x, kk)
\* 4xkk
SNE(x, kk) == W(64 + x, kk)
\* 5xy0
SER(x, y) == W(80 + x, 16 * y)
\* 9xy0
SNER(x, y) == W(144 + x, 16 * y)

\* Bnnn
JPV0(nnn) == W(176 + (nnn \div 256), nnn % 256)
\* 0nnn
SYS(nnn) == W(nnn \div 256, nnn % 256)

\* programs of the host-loop specification: key waits, timers, a draw, a jump
RomsHost ==
    { LD(0, 9) \o FX(0, 21) \o FX(0, 24) \o DRW(0, 0, 5) \o JP(522) \o FX(x, 10)
        \o ADD(x, 1) : x \in {1, 15} }
    \cup { FX(0, 10) \o LDI(0) \o DRW(0, 0, 5) \o JP(518),
           LD(2, 255) \o FX(2, 21) \o JP(518) \o LD(0, 0) \o FX(3, 7),
           <<96, 5, 112, 3>> }

\* the register indices and the byte values the arithmetic programs use
RegSample == {0, 1, 14, 15}
ByteSample == {0, 1, 10, 250, 255}

\* programs of the arithmetic specification: VF and Vx set, then 7xkk; Vx and Vy
\* set, then 8xy4
RomsAlu ==
    { LD(15, f) \o LD(x, a) \o ADD(x, kk) :
        f \in {0, 7}, x \in RegSample, a \in ByteSample, kk \in ByteSample }
    \cup { LD(x, a) \o LD(y, b) \o ALU(x, y, 4) :
        x \in RegSample, y \in RegSample, a \in ByteSample, b \in ByteSample }

\* programs of the decoding specification: V0 and V1 set, then one word, among
\* them words that match no instruction of the set
WordSample ==
    { W(80, 16), W(80, 17), W(80, 31), W(144, 16), W(144, 18), W(144, 31),
      W(128, 24), W(128, 25), W(128, 26), W(128, 27), W(128, 28), W(128, 29),
      W(128, 31), W(128, 20), W(224, 0), W(224, 158), W(224, 161), W(224, 159),
      W(240, 0), W(240, 8), W(240, 30), W(240, 255), W(1, 35), W(0, 224) }

RomsDecode == { LD(0, a) \o LD(1, b) \o w : a \in {0, 1}, b \in {0, 1}, w \in WordSample }

\* programs of the loading specification: the empty ROM, the program of the
\* scenario, straight-line programs of 1 to 4 instructions, one byte without
\* a second, and a straight-line program that stores into its own last instruction
RomsLoad ==
    { <<>>, <<96, 5, 112, 3>>, <<96>>,
      LDI(518) \o LD(0, 18) \o FX(0, 85) \o ADD(0, 1) }
    \cup { LD(x, a) : x \in {0, 15}, a \in {0, 200} }
    \cup { LD(x, a) \o ADD(x, 100) \o LDI(768) \o FX(x, n) :
             x \in {0, 3}, a \in {0, 200}, n \in {30, 51, 85, 101} }
    \cup { LDI(768) \o LD(1, a) \o DRW(1, 1, 2) : a \in {0, 63} }

\* programs of the drawing specification.  The origin registers are (Va, Vb),
\* among them a = b and a = F; the sprite is a built-in digit (I = 0), the
\* program's own bytes (I = 0x200), zero bytes (I = 0x300) or the last bytes of
\* memory (I = 4090).  One family draws the same sprite two or three times, the
\* other draws two sprites over each other.
OriginRegs == {<<0, 1>>, <<2, 2>>, <<15, 1>>}

RomsDraw ==
    { LD(ab[1], vx) \o LD(ab[2], vy) \o LDI(addr) \o DRW(ab[1], ab[2], n)
        \o DRW(ab[1], ab[2], n) \o DRW(ab[1], ab[2], n) :
        ab \in OriginRegs, vx \in {0, 61, 255}, vy \in {0, 30},
        addr \in {0, 512, 768, 4090}, n \in {0, 5, 15} }
    \cup { LD(0, vx) \o LD(1, vy) \o LDI(ad[1]) \o DRW(0, 1, n) \o LDI(ad[2]) \o DRW(0, 1, n) :
        vx \in {0, 61}, vy \in {0, 30}, ad \in {<<0, 5>>, <<512, 0>>}, n \in {5, 15} }

\* programs of the register-file specification.  The first loads V0..VF from the
\* 16 bytes after the code, stores V0..Vx at dest, zeroes V0..Vx from a clear
\* part of memory and loads them back from dest; dest is free memory, the font
\* area, the last x + 1 bytes of memory, an address too high to take V0..Vx, or
\* inside the program.  The second zeroes the registers with 6k00.
RegData == { <<17, 34, 51, 68, 85, 102, 119, 136, 153, 170, 187, 204, 221, 238, 255, 1>>,
             <<255, 0, 128, 7, 0, 0, 3, 201, 9, 0, 64, 2, 100, 0, 5, 254>> }

RomsRegs ==
    { LDI(528) \o FX(15, 101) \o LDI(dest) \o FX(x, 85) \o LDI(1024) \o FX(x, 101)
        \o LDI(dest) \o FX(x, 101) \o data :
        x \in {0, 1, 7, 15}, dest \in {768, 0, 4090, 522}, data \in RegData }
    \cup { LDI(528) \o FX(15, 101) \o LDI(4095 - x) \o FX(x, 85) \o LDI(1024) \o FX(x, 101)
        \o LDI(4095 - x) \o FX(x, 101) \o data :
        x \in {0, 1, 7, 15}, data \in RegData }
    \cup { LD(0, a) \o LD(1, b) \o LD(2, 9) \o LDI(768) \o FX(1, 85) \o LD(0, 0) \o LD(1, 0)
        \o FX(1, 101) : a \in {7, 255}, b \in {7, 255} }

\* programs of the memory-store specification: Vx set, I set, then Fx33, for
\* every byte value at one address and for sampled values at addresses in and
\* next to the font area, in the program and at the end of memory; and V0, V1
\* set, I set, then F155 in and next to the font area
StoreAddrs == {0, 78, 80, 514, 768, 4093, 4094, 4095}

RomsStore ==
    { LD(0, val) \o LDI(768) \o FX(0, 51) : val \in Byte }
    \cup { LD(x, val) \o LDI(addr) \o FX(x, 51) :
             x \in {5, 15}, val \in {0, 9, 10, 99, 100, 205, 255}, addr \in StoreAddrs }
    \cup { LD(0, a) \o LD(1, 200) \o LDI(addr) \o FX(1, 85) :
             a \in {0, 77}, addr \in {0, 78, 79, 80} }

\* programs of the subroutine specification: two levels of calls and a slot
\* used twice; a subroutine that works on registers and calls another; a call
\* of itself until the stack is full; sixteen calls in a row, then returns; a
\* return with an empty stack; a jump into a subroutine
RomsCalls ==
    { CALL(518) \o CALL(522) \o JP(516) \o CALL(522) \o RET \o RET,
      CALL(516) \o JP(514) \o LD(0, 1) \o CALL(524) \o ADD(0, 1) \o RET \o ADD(0, 16) \o RET,
      CALL(512),
      CALL(514) \o CALL(516) \o CALL(518) \o CALL(520) \o CALL(522) \o CALL(524)
        \o CALL(526) \o CALL(528) \o CALL(530) \o CALL(532) \o CALL(534) \o CALL(536)
        \o CALL(538) \o CALL(540) \o CALL(542) \o CALL(544) \o RET,
      RET,
      JP(516) \o JP(514) \o RET,
      CALL(516) \o CALL(516) \o RET }

\* programs of the 0nnn specification: a sprite drawn, a subroutine entered,
\* then one word of the family 0nnn: 00E0, 00EE and words with other nnn,
\* among them words that end in the nibble 0 or E
SysWords ==
    { W(0, 224), W(0, 238), W(1, 35), W(15, 255), W(0, 1), W(2, 225),
      W(2, 48), W(0, 0), W(2, 14), W(0, 254) }

RomsSys == { LDI(0) \o DRW(0, 0, 5) \o CALL(518) \o w : w \in SysWords }

\* programs of the key specification: Vx set to a key the user presses, to a
\* key the user does not press or to 16, then key skips, alone and around a
\* key wait; and a key wait followed by skips on the key it returned
RomsKeys ==
    { LD(0, k) \o SKP(0) \o SKP(0) \o SKNP(0) \o SKNP(0) \o SKP(0) : k \in {3, 5, 16} }
    \cup { LD(15, k) \o SKNP(15) \o SKP(15) \o FX(1, 10) \o SKP(15) : k \in {3, 5, 16} }
    \cup { FX(1, 10) \o SKP(1) \o SKNP(1) \o SKNP(1) }

\* programs of the clear-screen specification: 00E0 on a fresh machine, after
\* sprites drawn at the origin or across the edges, with a timer running, and
\* between draws
RomsClear ==
    { CLS \o CLS,
      LD(0, 5) \o FX(0, 21) \o CLS \o CLS \o CLS,
      LDI(0) \o DRW(0, 0, 5) \o CLS \o DRW(0, 0, 5) \o CLS \o CLS }
    \cup { LD(0, a) \o LD(1, b) \o LDI(sprite) \o DRW(0, 1, 5) \o CLS \o CLS :
             a \in {0, 61}, b \in {0, 30}, sprite \in {0, 5} }

\* programs of the subtraction specification: Vx and Vy set, then 8xy5 or 8xy7
RomsSub ==
    { LD(x, a) \o LD(y, b) \o ALU(x, y, n) :
        x \in RegSample, y \in RegSample, a \in ByteSample, b \in ByteSample, n \in {5, 7} }

\* programs of the shift specification: Vx and Vy set, then 8xy6 or 8xyE
RomsShift ==
    { LD(y, b) \o LD(x, a) \o ALU(x, y, n) :
        x \in RegSample, y \in {1, 15}, a \in {0, 1, 2, 127, 128, 129, 255},
        b \in {0, 255}, n \in {6, 14} }

\* programs of the skip specification: Vx and Vy set, then one conditional
\* skip whose condition holds or does not
SkipRegs == {<<0, 1>>, <<15, 1>>, <<0, 15>>, <<2, 2>>}

\* the conditional skips tried on Vx = a, Vy = b
SkipWords(x, y, a, b) ==
    { SE(x, a), SE(x, 8), SNE(x, b), SNE(x, 8), SER(x, y), SNER(x, y) }

RomsSkip ==
    UNION { { LD(xy[1], a) \o LD(xy[2], b) \o w : w \in SkipWords(xy[1], xy[2], a, b) } :
              xy \in SkipRegs, a \in {0, 7, 255}, b \in {0, 7, 255} }

\* n copies of the instruction w
Repeat(w, n) == [k \in 1..(2 * n) |-> w[2 - (k % 2)]]

\* programs of the index-register specification: Vx = 255, I = 0xFFF, then a
\* loop of sixteen Fx1E, run until I has passed 65535
RomsIndex ==
    { LD(x, 255) \o LDI(4095) \o Repeat(FX(x, 30), 16) \o JP(516) : x \in {0, 15} }

\* programs of the jump specification: a jump, a call, a 0nnn or a jump
\* relative to V0 with an even or an odd target inside the program, followed
\* at address b by instructions that skip, call and return; and a key wait
JumpTail(b) == LD(1, 1) \o SE(1, 1) \o CALL(b + 10) \o ADD(1, 1) \o JP(b + 2) \o RET

RomsJump ==
    { w \o JumpTail(514) : w \in { JP(514), JP(515), JP(518), JP(519), CALL(524), CALL(521),
                                   SYS(516), SYS(517), SYS(523) } }
    \cup { LD(0, a) \o JPV0(t) \o JumpTail(516) : a \in {0, 1, 2, 5}, t \in {516, 517} }
    \cup { FX(0, 10) \o JP(512) }

\* the values the timer programs set a timer to
TimerValues == {0, 1, 2, 3, 255}

\* programs of the timer specification: Vx set, a timer set from Vx (Fx15 or
\* Fx18), then the delay timer read into Vy again and again
RomsTimers ==
    { LD(x, val) \o FX(x, set) \o FX(y, 7) \o FX(y, 7) \o FX(y, 7) \o JP(516) :
        x \in {0, 15}, y \in {0, 1}, val \in TimerValues, set \in {21, 24} }

Init == InitWith(RomsHost)

Next == LoadRom \/ RunCycle \/ Refresh \/ SetKey

Spec == Init /\ [][Next]_vars

\* a run without user input and without rendering
NextCore == LoadRom \/ RunCycle

InitAlu == InitWith(RomsAlu)

SpecAlu == InitAlu /\ [][NextCore]_vars

InitDecode == InitWith(RomsDecode)

SpecDecode == InitDecode /\ [][NextCore]_vars

InitLoad == InitWith(RomsLoad)

SpecLoad == InitLoad /\ [][NextCore]_vars

InitDraw == InitWith(RomsDraw)

SpecDraw == InitDraw /\ [][NextCore]_vars

\* a run of the register-file programs
NextLong == LoadRom \/ RunLongCycle

InitRegs == InitWith(RomsRegs)

SpecRegs == InitRegs /\ [][NextLong]_vars

InitStore == InitWith(RomsStore)

SpecStore == InitStore /\ [][NextCore]_vars

\* a run of the subroutine programs
NextDeep == LoadRom \/ RunDeepCycle

InitCalls == InitWith(RomsCalls)

SpecCalls == InitCalls /\ [][NextDeep]_vars

InitSys == InitWith(RomsSys)

SpecSys == InitSys /\ [][NextCore]_vars

InitKeys == InitWith(RomsKeys)

SpecKeys == InitKeys /\ [][Next]_vars

\* a run with rendering and without user input
NextRender == LoadRom \/ RunCycle \/ Refresh

InitClear == InitWith(RomsClear)

SpecClear == InitClear /\ [][NextRender]_vars

InitSub == InitWith(RomsSub)

SpecSub == InitSub /\ [][NextCore]_vars

InitShift == InitWith(RomsShift)

SpecShift == InitShift /\ [][NextCore]_vars

InitSkip == InitWith(RomsSkip)

SpecSkip == InitSkip /\ [][NextCore]_vars

\* a run of the index-register programs
NextIndex == LoadRom \/ RunIndexCycle

InitIndex == InitWith(RomsIndex)

SpecIndex == InitIndex /\ [][NextIndex]_vars

InitJump == InitWith(RomsJump)

SpecJump == InitJump /\ [][NextCore]_vars

\* a call of run_cycle as the host loop sees it (main.rs:42-45): possible while
\* the machine is loaded and has not panicked, and one more cycle in the history.
\* Only RunCycle changes hist, so the steps of Next that change hist are the
\* steps of RunCycle, and this action is enabled exactly when RunCycle is.
CycleCalled ==
    /\ loaded
    /\ ~panicked
    /\ Len(hist) < MaxCycles
    /\ hist' = Append(hist, HistEntry(Machine, fetch(Machine)))

\* the host loop never stops calling run_cycle (main.rs:41-45 is a `loop` whose
\* every iteration runs a cycle), so a cycle that can run does run
SpecLive == Init /\ [][Next]_vars /\ WF_hist(CycleCalled)

InitTimers == InitWith(RomsTimers)

SpecTimers == InitTimers /\ [][NextCore]_vars

(***************************************************************************)
(* Vocabulary of the properties.  The instruction word and its fields are  *)
(* read here by arithmetic on the two bytes at pc.                         *)
(***************************************************************************)
\* the word at pc, or -1 when pc is not the address of a word in memory
WordAtPc == IF pc + 1 < MEMORY_SIZE THEN memory[pc] * 256 + memory[pc + 1] ELSE -1

TopNibble(op) == op \div 4096
RegX(op) == (op \div 256) % 16
RegY(op) == (op \div 16) % 16
LowByte(op) == op % 256
LowNibble(op) == op % 16
Addr(op) == op % 4096

IsFx(op, kk) == op # -1 /\ TopNibble(op) = 15 /\ LowByte(op) = kk

\* this step is a call of run_cycle
Cycled == Len(hist') = Len(hist) + 1

\* this step is a call of run_cycle that returned (no panic)
Completed == Cycled /\ ~panicked'

Max(a, b) == IF a >= b THEN a ELSE b

Min(S) == CHOOSE n \in S : \A o \in S : n <= o

\* the last cycle in the history, and the one before it
Last == hist[Len(hist)]
Before == hist[Len(hist) - 1]

(***************************************************************************)
(* C1.  Blocking wait, no key: a cycle that executes Fx0A while no key is  *)
(* latched returns with pc where it was before the cycle (process_opcode   *)
(* leaves it 2 below the advanced value) and with the registers, I, the    *)
(* memory, the stack, sp and the framebuffer unchanged; the word at pc is  *)
(* therefore Fx0A again, and while the latch stays clear no number of      *)
(* cycles moves pc past it.                                                *)
(***************************************************************************)
C1_BlockedWait ==
    [][ (Cycled /\ IsFx(WordAtPc, 10) /\ Latched(keyboard) = {})
        => /\ ~panicked'
           /\ process_opcode([Machine EXCEPT !.pc = pc + 2], WordAtPc, 0).pc = (pc + 2) - 2
           /\ pc' = pc
           /\ UNCHANGED <<v, i, memory, stack, sp, display>>
           /\ IsFx(WordAtPc', 10) ]_vars

\* two cycles in a row ran Fx0A on a clear latch and pc is still at the instruction
C1_Witness ==
    /\ Len(hist) >= 2
    /\ IsFx(Last.opcode, 10) /\ Last.keys = {}
    /\ IsFx(Before.opcode, 10) /\ Before.keys = {}
    /\ Before.pc = Last.pc /\ pc = Last.pc
    /\ ~panicked

(***************************************************************************)
(* C2.  Blocking wait, key present: a cycle that executes Fx0A while some  *)
(* key is latched stores the lowest-numbered latched key in Vx, clears all *)
(* 16 latch flags and ends with pc 2 past the instruction.                 *)
(***************************************************************************)
C2_KeyTaken ==
    [][ (Cycled /\ IsFx(WordAtPc, 10) /\ Latched(keyboard) # {})
        => /\ ~panicked'
           /\ v'[RegX(WordAtPc)] = Min(Latched(keyboard))
           /\ \A r \in 0..(REGISTERS_SIZE - 1) : r # RegX(WordAtPc) => v'[r] = v[r]
           /\ Latched(keyboard') = {}
           /\ pc' = pc + 2 ]_vars

\* Fx0A ran with two keys latched: Vx holds the lower one and the latch is clear
C2_Witness ==
    /\ Len(hist) >= 1
    /\ IsFx(Last.opcode, 10)
    /\ Last.keys = {3, 12}
    /\ v[RegX(Last.opcode)] = 3
    /\ Latched(keyboard) = {}
    /\ pc = Last.pc + 2

(***************************************************************************)
(* C3.  Timer tick: a cycle that returns has decremented each timer once,  *)
(* floored at 0, after the instruction ran: the delay timer ends at        *)
(* max(d - 1, 0) where d is Vx if the instruction is Fx15 and the timer    *)
(* before the cycle otherwise (likewise the sound timer and Fx18),         *)
(* whatever the instruction is.                                            *)
(***************************************************************************)
C3_TimerTick ==
    [][ Completed
        => /\ dt' = Max((IF IsFx(WordAtPc, 21) THEN v[RegX(WordAtPc)] ELSE dt) - 1, 0)
           /\ st' = Max((IF IsFx(WordAtPc, 24) THEN v[RegX(WordAtPc)] ELSE st) - 1, 0)
           /\ dt' \in Byte /\ st' \in Byte ]_vars

\* the timers ran down through a draw, a jump and a blocked Fx0A, and through a
\* cycle that started with the sound timer at 0
C3_Witness ==
    /\ Len(hist) >= 6
    /\ TopNibble(hist[4].opcode) = 13 /\ hist[5].dt = hist[4].dt - 1 /\ hist[4].dt > 0
    /\ TopNibble(hist[5].opcode) = 1 /\ hist[6].dt = hist[5].dt - 1 /\ hist[5].dt > 0
    /\ IsFx(hist[6].opcode, 10) /\ hist[6].keys = {} /\ dt = hist[6].dt - 1 /\ hist[6].dt > 0
    /\ hist[1].st = 0 /\ hist[2].st = 0
    /\ ~panicked

(***************************************************************************)
(* C7 as stated.  Immediate add: for every x in 0..15 a cycle executing    *)
(* 7xkk leaves Vx = (Vx + kk) mod 256 and VF as it was before.             *)
(***************************************************************************)
C7_AsStated ==
    [][ (Cycled /\ WordAtPc # -1 /\ TopNibble(WordAtPc) = 7)
        => /\ v'[RegX(WordAtPc)] = (v[RegX(WordAtPc)] + LowByte(WordAtPc)) % 256
           /\ v'[15] = v[15] ]_vars

(***************************************************************************)
(* C7 amended.  Immediate add: a cycle executing 7xkk returns with         *)
(* Vx = (Vx + kk) mod 256 and every other register as it was; VF is        *)
(* unchanged unless x = F, where VF is the destination.                    *)
(***************************************************************************)
C7_ImmediateAdd ==
    [][ (Cycled /\ WordAtPc # -1 /\ TopNibble(WordAtPc) = 7)
        => /\ ~panicked'
           /\ v'[RegX(WordAtPc)] = (v[RegX(WordAtPc)] + LowByte(WordAtPc)) % 256
           /\ \A r \in 0..(REGISTERS_SIZE - 1) : r # RegX(WordAtPc) => v'[r] = v[r]
           /\ RegX(WordAtPc) # 15 => v'[15] = v[15] ]_vars

\* 7xkk with x below F wrapped past 255 and left a nonzero VF alone
C7_Witness ==
    /\ Len(hist) >= 1
    /\ TopNibble(Last.opcode) = 7
    /\ RegX(Last.opcode) # 15
    /\ Last.v[RegX(Last.opcode)] + LowByte(Last.opcode) > 255
    /\ v[RegX(Last.opcode)] = Last.v[RegX(Last.opcode)] + LowByte(Last.opcode) - 256
    /\ Last.v[15] = 7 /\ v[15] = 7

(***************************************************************************)
(* C8.  Register add with carry, for a destination x other than F (where   *)
(* the sum and the carry have one register to share): a cycle executing    *)
(* 8xy4, for every y including F and x, leaves Vx = (old Vx + old Vy) mod  *)
(* 256 and VF = 1 if old Vx + old Vy > 255, else 0.                        *)
(***************************************************************************)
C8_AddWithCarry ==
    [][ (Cycled /\ WordAtPc # -1 /\ TopNibble(WordAtPc) = 8 /\ LowNibble(WordAtPc) = 4
           /\ RegX(WordAtPc) # 15)
        => /\ v'[RegX(WordAtPc)] = (v[RegX(WordAtPc)] + v[RegY(WordAtPc)]) % 256
           /\ v'[15] = (IF v[RegX(WordAtPc)] + v[RegY(WordAtPc)] > 255 THEN 1 ELSE 0) ]_vars

(***************************************************************************)
(* C9.  Decode failure: a cycle whose word matches none of the defined     *)
(* patterns (00E0, 00EE, 0nnn, 1nnn, 2nnn, 3xkk, 4xkk, 5xy0, 6xkk, 7xkk,   *)
(* 8xy0..8xy7, 8xyE, 9xy0, Annn, Bnnn, Cxkk, Dxyn, Ex9E, ExA1, Fx07, Fx0A, *)
(* Fx15, Fx18, Fx1E, Fx29, Fx33, Fx55, Fx65) halts the run.                *)
(***************************************************************************)
DefinedWord(op) ==
    CASE TopNibble(op) \in {0, 1, 2, 3, 4, 6, 7, 10, 11, 12, 13} -> TRUE
      [] TopNibble(op) \in {5, 9} -> LowNibble(op) = 0
      [] TopNibble(op) = 8 -> LowNibble(op) \in {0, 1, 2, 3, 4, 5, 6, 7, 14}
      [] TopNibble(op) = 14 -> LowByte(op) \in {158, 161}
      [] TopNibble(op) = 15 -> LowByte(op) \in {7, 10, 21, 24, 30, 41, 51, 85, 101}

C9_DecodeFailure ==
    [][ (Cycled /\ WordAtPc # -1 /\ ~DefinedWord(WordAtPc)) => panicked' ]_vars

(***************************************************************************)
(* C10.  Load and run.                                                     *)
(***************************************************************************)
\* the j-th instruction word of the loaded ROM (j from 1)
RomWord(j) == rom[2 * j - 1] * 256 + rom[2 * j]

\* an instruction that only ever advances pc by 2
NonBranching(op) ==
    \/ op = 224
    \/ TopNibble(op) \in {6, 7, 10, 12, 13}
    \/ TopNibble(op) = 8 /\ LowNibble(op) \in {0, 1, 2, 3, 4, 5, 6, 7, 14}
    \/ TopNibble(op) = 15 /\ LowByte(op) \in {7, 21, 24, 30, 41, 51, 85, 101}

\* the first k words of the ROM are non-branching instructions
StraightLine(k) == 2 * k <= Len(rom) /\ \A j \in 1..k : NonBranching(RomWord(j))

\* load_rom on a fresh machine writes the ROM at 0x200 and nothing else
LoadsRom ==
    (~loaded /\ loaded' /\ MEMORY_START + Len(rom) <= MEMORY_SIZE)
    => /\ ~panicked'
       /\ memory' = [a \in 0..(MEMORY_SIZE - 1) |->
                       IF a >= MEMORY_START /\ a < MEMORY_START + Len(rom)
                       THEN rom[a - MEMORY_START + 1] ELSE memory[a]]
       /\ pc' = MEMORY_START
       /\ UNCHANGED <<i, pc, v, stack, sp, dt, st, keyboard, display, is_drawing>>

\* the program of the scenario: V0 = 8 and pc = 0x204 after two cycles
Scenario == (rom = <<96, 5, 112, 3>> /\ Len(hist') = 2) => (v'[0] = 8 /\ pc' = 516)

(***************************************************************************)
(* C10 as stated: load_rom writes the ROM at 0x200 and changes nothing     *)
(* else, and k cycles over a loaded program whose first k words are        *)
(* non-branching instructions execute those words in address order and     *)
(* end with pc = 0x200 + 2k.                                               *)
(***************************************************************************)
C10_AsStated ==
    [][ /\ LoadsRom
        /\ Scenario
        /\ (Completed /\ StraightLine(Len(hist')))
           => /\ pc' = MEMORY_START + 2 * Len(hist')
              /\ \A j \in 1..Len(hist') :
                    /\ hist'[j].pc = MEMORY_START + 2 * (j - 1)
                    /\ hist'[j].opcode = RomWord(j) ]_vars

(***************************************************************************)
(* C10 amended: load_rom writes the ROM at 0x200 and changes nothing else, *)
(* and k cycles over a loaded program whose first k words are              *)
(* non-branching instructions, each still as loaded when it is fetched     *)
(* (no earlier instruction has stored over it), execute those words in     *)
(* address order and end with pc = 0x200 + 2k.                             *)
(***************************************************************************)
C10_LoadAndRun ==
    [][ /\ LoadsRom
        /\ Scenario
        /\ (/\ Completed
            /\ StraightLine(Len(hist'))
            /\ \A j \in 1..Len(hist') :
                  hist'[j].pc = MEMORY_START + 2 * (j - 1) => hist'[j].opcode = RomWord(j))
           => /\ pc' = MEMORY_START + 2 * Len(hist')
              /\ \A j \in 1..Len(hist') : hist'[j].pc = MEMORY_START + 2 * (j - 1) ]_vars

\* the program of the scenario, loaded and run for two cycles
C10_Witness ==
    /\ rom = <<96, 5, 112, 3>>
    /\ loaded
    /\ \A n \in 1..4 : memory[MEMORY_START + n - 1] = rom[n]
    /\ Len(hist) = 2
    /\ hist[1].opcode = RomWord(1) /\ hist[2].opcode = RomWord(2)
    /\ v[0] = 8
    /\ pc = MEMORY_START + 4

(***************************************************************************)
(* Drawing.  The pixels a sprite of n rows at mem[base..] covers when it   *)
(* is drawn at origin (x0, y0): row r, column c (bit 7 first) with the bit *)
(* set covers column (x0 + c) mod 64 of row (y0 + r) mod 32.               *)
(***************************************************************************)
SpritePixels(mem, base, x0, y0, n) ==
    { ((x0 + c) % 64) + ((y0 + r) % 32) * 64 :
        <<r, c>> \in { rc \in (0..(n - 1)) \X (0..7) :
                         (mem[base + rc[1]] \div Pow2(7 - rc[2])) % 2 = 1 } }

IsDraw(op) == op # -1 /\ TopNibble(op) = 13

(***************************************************************************)
(* C5.  Draw semantics: a cycle executing Dxyn with I + n within memory    *)
(* toggles exactly the pixels the n bytes at memory[I..I+n-1] cover at     *)
(* origin (Vx, Vy), both axes wrapping, and no other pixel; VF ends 1 if   *)
(* one of these pixels was set before the instruction and 0 otherwise,     *)
(* whatever VF was; no other register, I and no memory byte changes, and   *)
(* the framebuffer is marked dirty.                                        *)
(***************************************************************************)
C5_Draw ==
    [][ (Cycled /\ IsDraw(WordAtPc) /\ i + LowNibble(WordAtPc) <= MEMORY_SIZE)
        => LET T == SpritePixels(memory, i, v[RegX(WordAtPc)], v[RegY(WordAtPc)],
                                 LowNibble(WordAtPc))
           IN  /\ ~panicked'
               /\ display' = [p \in 0..(DISPLAY_SIZE - 1) |->
                                IF p \in T THEN ~display[p] ELSE display[p]]
               /\ v'[15] = (IF \E p \in T : display[p] THEN 1 ELSE 0)
               /\ \A r \in 0..14 : v'[r] = v[r]
               /\ is_drawing'
               /\ pc' = pc + 2
               /\ UNCHANGED <<i, memory, stack, sp, keyboard>> ]_vars

\* a sprite drawn at (61, 30) over another one: it wrapped on both axes, erased
\* pixels, set others, and VF is 1
C5_Witness ==
    /\ Len(hist) >= 1
    /\ IsDraw(Last.opcode)
    /\ Last.v[RegX(Last.opcode)] = 61 /\ Last.v[RegY(Last.opcode)] = 30
    /\ LowNibble(Last.opcode) = 5
    /\ v[15] = 1
    /\ Last.lit \ Lit(display) # {}
    /\ Lit(display) \ Last.lit # {}
    /\ \E p \in Lit(display) \ Last.lit : p % 64 = 0 /\ p \div 64 = 0
    /\ ~panicked

(***************************************************************************)
(* Double draw.  The last two cycles executed the same Dxyn with the same  *)
(* I and the same origin, and both returned.                               *)
(***************************************************************************)
DrawnTwice ==
    /\ Len(hist) >= 2
    /\ ~panicked
    /\ IsDraw(Last.opcode)
    /\ Before.opcode = Last.opcode
    /\ Before.i = Last.i
    /\ Before.v[RegX(Last.opcode)] = Last.v[RegX(Last.opcode)]
    /\ Before.v[RegY(Last.opcode)] = Last.v[RegY(Last.opcode)]

\* the pixels the sprite of the last cycle covers
LastSprite ==
    SpritePixels(memory, Last.i, Last.v[RegX(Last.opcode)], Last.v[RegY(Last.opcode)],
                 LowNibble(Last.opcode))

(***************************************************************************)
(* C4 as stated.  Double draw: the identical Dxyn executed twice in        *)
(* succession at the identical location restores the framebuffer and sets  *)
(* VF to 1 on the second draw only, for any framebuffer, sprite and        *)
(* height.                                                                 *)
(***************************************************************************)
C4_AsStated ==
    DrawnTwice => /\ Lit(display) = Before.lit
                  /\ v[15] = 1
                  /\ Last.v[15] = 0

(***************************************************************************)
(* C4 amended.  Double draw: the identical Dxyn executed twice in          *)
(* succession at the identical location restores the framebuffer; VF is 1  *)
(* after the first draw exactly if one of the sprite's pixels was set      *)
(* before it, and 1 after the second exactly if one of them was not: on a  *)
(* framebuffer where none of the sprite's pixels is set, a sprite with a   *)
(* set bit gives VF = 0, then VF = 1.                                      *)
(***************************************************************************)
C4_DoubleDraw ==
    DrawnTwice => /\ Lit(display) = Before.lit
                  /\ Last.v[15] = (IF LastSprite \cap Before.lit # {} THEN 1 ELSE 0)
                  /\ v[15] = (IF LastSprite \ Before.lit # {} THEN 1 ELSE 0)
                  /\ (LastSprite # {} /\ LastSprite \cap Before.lit = {})
                     => (Last.v[15] = 0 /\ v[15] = 1)

\* a sprite that wraps on both axes, drawn twice on a clear framebuffer: VF was 0,
\* is 1, and the framebuffer is clear again
C4_Witness ==
    /\ DrawnTwice
    /\ Len(hist) = 5
    /\ Last.v[RegX(Last.opcode)] = 61 /\ Last.v[RegY(Last.opcode)] = 30
    /\ LowNibble(Last.opcode) = 15
    /\ Before.lit = {}
    /\ Cardinality(Last.lit) > 20
    /\ Lit(display) = {}
    /\ Last.v[15] = 0 /\ v[15] = 1

(***************************************************************************)
(* C6.  Register store/load round trip, for I + x <= 4095.  Fx55 writes    *)
(* memory[I + k] = Vk for k in 0..x and nothing else; Fx65 reads V0..Vx    *)
(* from memory[I..I + x] and nothing else; neither changes I or a register *)
(* above x.  When a cycle executes Fx65 with V0..Vx zero and the same I    *)
(* and x as an earlier Fx55, with no instruction in between that stores to *)
(* memory, V0..Vx are again what they were before the Fx55.                *)
(***************************************************************************)
StoresRegs ==
    (Cycled /\ IsFx(WordAtPc, 85) /\ i + RegX(WordAtPc) <= MEMORY_SIZE - 1)
    => /\ ~panicked'
       /\ memory' = [a \in 0..(MEMORY_SIZE - 1) |->
                       IF a >= i /\ a <= i + RegX(WordAtPc) THEN v[a - i] ELSE memory[a]]
       /\ UNCHANGED <<i, v>>

LoadsRegs ==
    (Cycled /\ IsFx(WordAtPc, 101) /\ i + RegX(WordAtPc) <= MEMORY_SIZE - 1)
    => /\ ~panicked'
       /\ v' = [r \in 0..(REGISTERS_SIZE - 1) |->
                  IF r <= RegX(WordAtPc) THEN memory[i + r] ELSE v[r]]
       /\ UNCHANGED <<i, memory>>

\* cycle j of history h is an Fx55 that the last cycle of h, an Fx65 on zeroed
\* registers, reads back
ReadsBack(h, j) ==
    LET e == h[j]
        l == h[Len(h)]
    IN  /\ IsFx(e.opcode, 85)
        /\ IsFx(l.opcode, 101)
        /\ RegX(l.opcode) = RegX(e.opcode)
        /\ l.i = e.i
        /\ e.i + RegX(e.opcode) <= MEMORY_SIZE - 1
        /\ \A r \in 0..RegX(e.opcode) : l.v[r] = 0
        /\ \A n \in (j + 1)..(Len(h) - 1) : ~IsFx(h[n].opcode, 85) /\ ~IsFx(h[n].opcode, 51)

C6_RoundTrip ==
    [][ /\ StoresRegs
        /\ LoadsRegs
        /\ Completed
           => \A j \in 1..(Len(hist') - 1) :
                ReadsBack(hist', j)
                => \A r \in 0..RegX(hist'[j].opcode) : v'[r] = hist'[j].v[r] ]_vars

\* V0..VF, none of them 0 before, were stored in the last 16 bytes of memory,
\* zeroed and read back
C6_Witness ==
    /\ Len(hist) = 8
    /\ ~panicked
    /\ ReadsBack(hist, 4)
    /\ RegX(Last.opcode) = 15
    /\ Last.i = MEMORY_SIZE - 16
    /\ \A r \in 0..15 : hist[4].v[r] # 0 /\ Last.v[r] = 0 /\ v[r] = hist[4].v[r]
    /\ \A r \in 0..15 : memory[MEMORY_SIZE - 16 + r] = v[r]

(***************************************************************************)
(* C11.  Font area.  As stated: memory[0..79] holds the 16 digit sprites   *)
(* in every reachable state.  As amended: it holds them after construction *)
(* and after load_rom, and a byte a of it changes only in a cycle that      *)
(* executes Fx33 with I <= a <= I + 2 or Fx55 with I <= a <= I + x.        *)
(***************************************************************************)
FontIntact == \A a \in 0..79 : memory[a] = CHAR_SPRITES[a + 1]

C11_AsStated == FontIntact

\* the cycle about to run stores to address a
StoresAt(a) ==
    \/ IsFx(WordAtPc, 51) /\ i <= a /\ a <= i + 2
    \/ IsFx(WordAtPc, 85) /\ i <= a /\ a <= i + RegX(WordAtPc)

C11_FontKept ==
    [][ /\ Len(hist) = 0 => FontIntact
        /\ \A a \in 0..79 : memory'[a] # memory[a] => (Cycled /\ StoresAt(a)) ]_vars

\* Fx33 has stored the digits of 205 right above the font area, F155 has
\* stored below its end, and the sprites are as constructed
C11_Witness ==
    /\ Len(hist) >= 3
    /\ FontIntact
    /\ \/ IsFx(hist[3].opcode, 51) /\ hist[3].i = 80
          /\ memory[80] = 2 /\ memory[81] = 0 /\ memory[82] = 5
       \/ Len(hist) >= 4 /\ IsFx(hist[4].opcode, 85) /\ hist[4].i = 80 /\ memory[81] = 200

(***************************************************************************)
(* C19.  BCD store: a cycle executing Fx33 with I + 2 <= 4095 writes       *)
(* digits h, t, o in 0..9 with 100 h + 10 t + o = Vx to memory[I],         *)
(* memory[I + 1], memory[I + 2] (205 gives 2, 0, 5) and changes no other   *)
(* memory byte, no register and not I.                                     *)
(***************************************************************************)
C19_BcdStore ==
    [][ (Cycled /\ IsFx(WordAtPc, 51) /\ i + 2 <= MEMORY_SIZE - 1)
        => /\ ~panicked'
           /\ \A k \in 0..2 : memory'[i + k] \in 0..9
           /\ 100 * memory'[i] + 10 * memory'[i + 1] + memory'[i + 2] = v[RegX(WordAtPc)]
           /\ v[RegX(WordAtPc)] = 205
              => (memory'[i] = 2 /\ memory'[i + 1] = 0 /\ memory'[i + 2] = 5)
           /\ \A a \in 0..(MEMORY_SIZE - 1) :
                (a < i \/ a > i + 2) => memory'[a] = memory[a]
           /\ UNCHANGED <<v, i>> ]_vars

\* F533 has stored 2, 0, 5 in the last three bytes of memory
C19_Witness ==
    /\ Len(hist) = 3
    /\ ~panicked
    /\ Last.opcode = 62771
    /\ Last.i = MEMORY_SIZE - 3
    /\ Last.v[5] = 205
    /\ memory[MEMORY_SIZE - 3] = 2 /\ memory[MEMORY_SIZE - 2] = 0 /\ memory[MEMORY_SIZE - 1] = 5

(***************************************************************************)
(* C12.  Call/return pairing.  A cycle executing 2nnn at address a with    *)
(* sp = d < 16 stores a + 2 in stack[d] and sets sp = d + 1, PC = nnn.  A   *)
(* cycle executing 00EE with sp = d + 1 sets sp = d and PC = stack[d]; when *)
(* sp has not been below d + 1 since a call made at depth d from address   *)
(* a, that is PC = a + 2 and sp is what it was before the call.  No cycle   *)
(* changes a stack slot below sp.                                          *)
(***************************************************************************)
IsCall(op) == op # -1 /\ TopNibble(op) = 2

IsRet(op) == op = 238

\* cycle j of history h is the call that the last cycle of h, a return, ends:
\* made at the depth the return leaves, with sp above that depth ever since
EndsCall(h, j) ==
    /\ IsCall(h[j].opcode)
    /\ IsRet(h[Len(h)].opcode)
    /\ h[j].sp + 1 = h[Len(h)].sp
    /\ \A n \in (j + 1)..Len(h) : h[n].sp > h[j].sp

C12_CallReturn ==
    [][ Cycled =>
         /\ (IsCall(WordAtPc) /\ sp < STACK_SIZE)
            => /\ ~panicked'
               /\ stack' = [stack EXCEPT ![sp] = pc + 2]
               /\ sp' = sp + 1
               /\ pc' = Addr(WordAtPc)
         /\ (IsRet(WordAtPc) /\ sp >= 1 /\ sp <= STACK_SIZE)
            => /\ ~panicked'
               /\ sp' = sp - 1
               /\ pc' = stack[sp - 1]
               /\ stack' = stack
         /\ \A j \in 1..Len(hist) :
               EndsCall(hist', j) => (pc' = hist[j].pc + 2 /\ sp' = hist[j].sp)
         /\ \A k \in 0..(STACK_SIZE - 1) : k < sp => stack'[k] = stack[k] ]_vars

\* two calls, the second from inside the first, have both been returned from,
\* in the opposite order, and sp is 0 again
C12_Witness ==
    /\ Len(hist) = 4
    /\ ~panicked
    /\ IsCall(hist[1].opcode) /\ IsCall(hist[2].opcode)
    /\ IsRet(hist[3].opcode) /\ IsRet(hist[4].opcode)
    /\ hist[3].sp = 2
    /\ hist[4].pc = hist[2].pc + 2
    /\ pc = hist[1].pc + 2
    /\ sp = 0

(***************************************************************************)
(* C13.  Legacy call as jump: a cycle executing a word 0nnn other than     *)
(* 00E0 and 00EE sets PC to nnn and changes neither the framebuffer, the   *)
(* dirty flag, the stack nor sp.                                           *)
(***************************************************************************)
IsSys(op) == op # -1 /\ TopNibble(op) = 0 /\ op # 224 /\ op # 238

C13_LegacyJump ==
    [][ (Cycled /\ IsSys(WordAtPc))
        => /\ ~panicked'
           /\ pc' = Addr(WordAtPc)
           /\ UNCHANGED <<display, is_drawing, stack, sp>> ]_vars

(***************************************************************************)
(* C14.  Key skips, for Vx a key number (0..15).  A cycle executing Ex9E   *)
(* ends with PC advanced by 4 when key Vx is latched and by 2 when it is   *)
(* not.  A cycle executing ExA1 ends with PC advanced by 4 and the latch   *)
(* unchanged when key Vx is not latched, and with PC advanced by 2 and all *)
(* 16 latch flags clear when it is.                                        *)
(***************************************************************************)
IsSkp(op) == op # -1 /\ TopNibble(op) = 14 /\ LowByte(op) = 158

IsSknp(op) == op # -1 /\ TopNibble(op) = 14 /\ LowByte(op) = 161

\* the register the word at pc names holds a key number
NamesKey == v[RegX(WordAtPc)] <= KEYBOARD_SIZE - 1

\* the key that register names is latched
KeyDown == v[RegX(WordAtPc)] \in Latched(keyboard)

C14_KeySkips ==
    [][ Cycled =>
         /\ (IsSkp(WordAtPc) /\ NamesKey)
            => /\ ~panicked'
               /\ (pc' = pc + 4) <=> KeyDown
               /\ (pc' = pc + 2) <=> ~KeyDown
         /\ (IsSknp(WordAtPc) /\ NamesKey)
            => /\ ~panicked'
               /\ (pc' = pc + 4) <=> ~KeyDown
               /\ (pc' = pc + 2) <=> KeyDown
               /\ ~KeyDown => keyboard' = keyboard
               /\ KeyDown => Latched(keyboard') = {} ]_vars

\* with keys 3 and 12 latched, E0A1 on V0 = 3 has not skipped and has cleared
\* both; before it E09E on V0 = 3 has skipped
C14_Witness ==
    /\ Len(hist) >= 3
    /\ ~panicked
    /\ IsSknp(Last.opcode)
    /\ Last.v[RegX(Last.opcode)] = 3
    /\ Last.keys = {3, 12}
    /\ pc = Last.pc + 2
    /\ Latched(keyboard) = {}
    /\ IsSkp(hist[2].opcode) /\ 3 \in hist[2].keys /\ hist[3].pc = hist[2].pc + 4

(***************************************************************************)
(* C15.  Key consumption: a latch flag set by the host stays set across    *)
(* cycles until a key-dependent instruction consumes it, and after a key-  *)
(* dependent instruction (Ex9E, ExA1 or Fx0A) has observed a pressed key   *)
(* the latch is clear, so the next key-dependent instruction does not      *)
(* observe that key again.                                                 *)
(***************************************************************************)
\* the cycle about to run is a key-dependent instruction that finds a key pressed
ObservesKey ==
    \/ (IsSkp(WordAtPc) \/ IsSknp(WordAtPc)) /\ NamesKey /\ KeyDown
    \/ IsFx(WordAtPc, 10) /\ Latched(keyboard) # {}

C15_KeyConsumed ==
    [][ Completed =>
         /\ ObservesKey => Latched(keyboard') = {}
         /\ ~ObservesKey => keyboard' = keyboard ]_vars

(***************************************************************************)
(* C16.  Frame of side effects: a cycle changes the framebuffer or the     *)
(* dirty flag only when it executes 00E0 or Dxyn; it changes a timer only  *)
(* by the tick, unless it executes Fx15 (delay) or Fx18 (sound); it        *)
(* changes VF only when it executes 8xy4, 8xy5, 8xy6, 8xy7, 8xyE or Dxyn,  *)
(* or an instruction whose destination register x is F.                    *)
(***************************************************************************)
\* the word is 8xy4, 8xy5, 8xy6, 8xy7 or 8xyE
IsFlagAlu(op) == op # -1 /\ TopNibble(op) = 8 /\ LowNibble(op) \in {4, 5, 6, 7, 14}

\* the word names VF as the register x it writes
WritesVF(op) == op # -1 /\ TopNibble(op) \in {6, 7, 8, 12, 15} /\ RegX(op) = 15

C16_Frame ==
    [][ Cycled =>
         /\ (display' # display \/ is_drawing' # is_drawing)
            => (WordAtPc = 224 \/ IsDraw(WordAtPc))
         /\ dt' # dt => (IsFx(WordAtPc, 21) \/ dt' = dt - 1)
         /\ st' # st => (IsFx(WordAtPc, 24) \/ st' = st - 1)
         /\ v'[15] # v[15]
            => (IsFlagAlu(WordAtPc) \/ IsDraw(WordAtPc) \/ WritesVF(WordAtPc)) ]_vars

(***************************************************************************)
(* C17.  Clear screen.  A cycle executing 00E0 leaves all 2048 pixels      *)
(* unset and the dirty flag set.  Executing 00E0 on the machine 00E0 has   *)
(* left changes nothing, and a cycle executing 00E0 right after a cycle    *)
(* that executed 00E0 changes nothing but PC and the timers, which the     *)
(* cycle advances and ticks, and the dirty flag when the host has cleared  *)
(* it in between.  The dirty flag is never cleared by a cycle or by        *)
(* load_rom.                                                               *)
(***************************************************************************)
C17_ClearScreen ==
    [][ /\ (Cycled /\ WordAtPc = 224)
           => /\ ~panicked'
              /\ Lit(display') = {}
              /\ is_drawing'
              /\ LET once == process_opcode(Machine, 224, 0)
                 IN  process_opcode(once, 224, 0) = once
              /\ (Len(hist) >= 1 /\ Last.opcode = 224)
                 => UNCHANGED <<display, i, memory, v, stack, sp, keyboard>>
        /\ (is_drawing /\ ~is_drawing') => (~Cycled /\ loaded /\ loaded') ]_vars

\* a sprite was drawn, 00E0 has been executed twice in a row, and the
\* framebuffer is clear and dirty
C17_Witness ==
    /\ Len(hist) >= 3
    /\ ~panicked
    /\ Last.opcode = 224
    /\ Before.opcode = 224
    /\ Before.lit # {}
    /\ Last.lit = {}
    /\ Lit(display) = {}
    /\ is_drawing

(***************************************************************************)
(* C18.  Framebuffer accumulation: in every state of a running machine the *)
(* set pixels are the XOR accumulation of the sprites that the Dxyn cycles *)
(* since the most recent 00E0 cycle (since construction if there is none)  *)
(* have mapped onto the framebuffer: a pixel is set exactly when an odd    *)
(* number of set sprite bits was mapped onto it.  Stated for runs in which *)
(* no cycle has stored to memory, so that the sprite bytes of every draw   *)
(* are the bytes memory holds now.                                         *)
(***************************************************************************)
SymDiff(A, B) == (A \ B) \cup (B \ A)

\* the pixels the sprite of history entry e covers, read from memory mem
SpriteOf(e, mem) ==
    SpritePixels(mem, e.i, e.v[RegX(e.opcode)], e.v[RegY(e.opcode)], LowNibble(e.opcode))

RECURSIVE Accumulated(_, _, _)
\* the XOR accumulation of the draws among the first n cycles of history h
\* since the last 00E0 among them
Accumulated(h, mem, n) ==
    IF n = 0 THEN {}
    ELSE IF h[n].opcode = 224 THEN {}
    ELSE IF IsDraw(h[n].opcode)
    THEN SymDiff(Accumulated(h, mem, n - 1), SpriteOf(h[n], mem))
    ELSE Accumulated(h, mem, n - 1)

\* no cycle of the history has executed Fx33 or Fx55
NoStores == \A j \in 1..Len(hist) : ~IsFx(hist[j].opcode, 51) /\ ~IsFx(hist[j].opcode, 85)

C18_Accumulation ==
    (loaded /\ ~panicked /\ NoStores) => Lit(display) = Accumulated(hist, memory, Len(hist))

(***************************************************************************)
(* C20.  Subtract flags, for a destination x other than F (where the       *)
(* difference and the flag have one register to share): a cycle executing  *)
(* 8xy5, for every y including F and x, leaves VF = 1 if old Vx > old Vy,  *)
(* else 0, and Vx = (old Vx - old Vy) mod 256; a cycle executing 8xy7      *)
(* leaves VF = 1 if old Vy > old Vx, else 0, and Vx = (old Vy - old Vx)    *)
(* mod 256.                                                                *)
(***************************************************************************)
IsAlu(op, n) == op # -1 /\ TopNibble(op) = 8 /\ LowNibble(op) = n

C20_SubtractFlags ==
    [][ (Cycled /\ RegX(WordAtPc) # 15) =>
         /\ IsAlu(WordAtPc, 5)
            => /\ v'[15] = (IF v[RegX(WordAtPc)] > v[RegY(WordAtPc)] THEN 1 ELSE 0)
               /\ v'[RegX(WordAtPc)] = (v[RegX(WordAtPc)] - v[RegY(WordAtPc)]) % 256
         /\ IsAlu(WordAtPc, 7)
            => /\ v'[15] = (IF v[RegY(WordAtPc)] > v[RegX(WordAtPc)] THEN 1 ELSE 0)
               /\ v'[RegX(WordAtPc)] = (v[RegY(WordAtPc)] - v[RegX(WordAtPc)]) % 256 ]_vars

(***************************************************************************)
(* C21.  Shift flags: a cycle executing 8xy6, for every x including F,     *)
(* leaves VF = the least-significant bit of old Vx, and for x other than F *)
(* Vx = old Vx >> 1; a cycle executing 8xyE leaves VF = the most-          *)
(* significant bit of old Vx, and for x other than F Vx = (old Vx << 1)    *)
(* mod 256; VF is 0 or 1 and no other register changes, whatever Vy holds. *)
(***************************************************************************)
C21_ShiftFlags ==
    [][ Cycled =>
         /\ IsAlu(WordAtPc, 6)
            => /\ v'[15] = v[RegX(WordAtPc)] % 2
               /\ RegX(WordAtPc) # 15 => v'[RegX(WordAtPc)] = v[RegX(WordAtPc)] \div 2
         /\ IsAlu(WordAtPc, 14)
            => /\ v'[15] = v[RegX(WordAtPc)] \div 128
               /\ RegX(WordAtPc) # 15 => v'[RegX(WordAtPc)] = (v[RegX(WordAtPc)] * 2) % 256
         /\ (IsAlu(WordAtPc, 6) \/ IsAlu(WordAtPc, 14))
            => /\ v'[15] \in {0, 1}
               /\ \A r \in 0..14 : r # RegX(WordAtPc) => v'[r] = v[r] ]_vars

(***************************************************************************)
(* C22.  Stack bounds: in every state of a machine that has not halted,    *)
(* 0 <= sp <= 16.  A cycle executing 2nnn with sp = 16 or 00EE with sp = 0 *)
(* halts the run, and no stack slot is written by it.                      *)
(***************************************************************************)
C22_StackBounds ==
    [][ /\ ~panicked => (sp >= 0 /\ sp <= STACK_SIZE)
        /\ ~panicked' => (sp' >= 0 /\ sp' <= STACK_SIZE)
        /\ (Cycled /\ IsCall(WordAtPc) /\ sp = STACK_SIZE)
           => (panicked' /\ stack' = stack)
        /\ (Cycled /\ IsRet(WordAtPc) /\ sp = 0)
           => (panicked' /\ stack' = stack) ]_vars

\* sixteen calls have filled the stack and the seventeenth has halted the run
C22_Witness ==
    /\ Len(hist) = 17
    /\ panicked
    /\ IsCall(Last.opcode)
    /\ Last.sp = STACK_SIZE
    /\ \A k \in 0..(STACK_SIZE - 1) : stack[k] = Last.pc + 2

(***************************************************************************)
(* C23.  Conditional skips: a cycle executing 3xkk, 4xkk, 5xy0 or 9xy0 at  *)
(* address a ends with PC = a + 4 when its condition holds (Vx = kk,       *)
(* Vx # kk, Vx = Vy, Vx # Vy) and with PC = a + 2 when it does not, and    *)
(* changes no register, not I, and no memory, stack or framebuffer state.  *)
(***************************************************************************)
\* the word is a conditional skip
IsSkip(op) ==
    /\ op # -1
    /\ \/ TopNibble(op) \in {3, 4}
       \/ TopNibble(op) \in {5, 9} /\ LowNibble(op) = 0

\* the condition of the conditional skip op holds of the registers
SkipCondition(op) ==
    CASE TopNibble(op) = 3 -> v[RegX(op)] = LowByte(op)
      [] TopNibble(op) = 4 -> v[RegX(op)] # LowByte(op)
      [] TopNibble(op) = 5 -> v[RegX(op)] = v[RegY(op)]
      [] TopNibble(op) = 9 -> v[RegX(op)] # v[RegY(op)]

C23_Skips ==
    [][ (Cycled /\ IsSkip(WordAtPc))
        => /\ ~panicked'
           /\ pc' = (IF SkipCondition(WordAtPc) THEN pc + 4 ELSE pc + 2)
           /\ UNCHANGED <<v, i, memory, stack, sp, display, is_drawing>> ]_vars

\* 3Fkk with VF = kk has skipped
C23_Witness ==
    /\ Len(hist) = 3
    /\ ~panicked
    /\ TopNibble(Last.opcode) = 3
    /\ RegX(Last.opcode) = 15
    /\ Last.v[15] = LowByte(Last.opcode)
    /\ LowByte(Last.opcode) = 255
    /\ pc = Last.pc + 4
    /\ v = Last.v

(***************************************************************************)
(* C24.  Index add: a cycle executing Fx1E, for every 16-bit value of I    *)
(* and every Vx, sets I to (I + Vx) mod 65536, does not halt the run and   *)
(* leaves VF unchanged.                                                    *)
(***************************************************************************)
C24_IndexAdd ==
    [][ (Cycled /\ IsFx(WordAtPc, 30))
        => /\ ~panicked'
           /\ i' = (i + v[RegX(WordAtPc)]) % 65536
           /\ v'[15] = v[15] ]_vars

(***************************************************************************)
(* C25.  Instruction atomicity: a cycle either returns with its            *)
(* instruction's effect applied or halts the run with none of the          *)
(* instruction's memory, register or framebuffer writes applied; Fx55,     *)
(* Fx33 and Dxyn whose address range runs past 4095 leave no partial       *)
(* writes behind.                                                          *)
(***************************************************************************)
C25_Atomic ==
    [][ (Cycled /\ panicked') => UNCHANGED <<memory, v, i, display>> ]_vars

(***************************************************************************)
(* C26.  Program counter alignment.  As stated: PC is 0x200 after          *)
(* construction and even in every reachable state.  As amended: PC is      *)
(* 0x200 after construction and after load_rom, and it is even in every    *)
(* state of a run in which no cycle has executed a jump to an odd address  *)
(* (0nnn, 1nnn or 2nnn with nnn odd, Bnnn with nnn + V0 odd).              *)
(***************************************************************************)
C26_AsStated == (Len(hist) = 0 => pc = MEMORY_START) /\ pc % 2 = 0

\* history entry e is a cycle that executed a jump or a call to an odd address
OddJump(e) ==
    /\ e.opcode # -1
    /\ \/ TopNibble(e.opcode) \in {0, 1, 2} /\ Addr(e.opcode) % 2 = 1
       \/ TopNibble(e.opcode) = 11 /\ (Addr(e.opcode) + e.v[0]) % 2 = 1

C26_Aligned ==
    /\ Len(hist) = 0 => pc = MEMORY_START
    /\ (\A j \in 1..Len(hist) : ~OddJump(hist[j])) => pc % 2 = 0

\* a jump relative to V0 = 2, a skip not taken, a call and a return have been
\* executed, all to even addresses, and PC is even
C26_Witness ==
    /\ Len(hist) = 6
    /\ ~panicked
    /\ TopNibble(hist[2].opcode) = 11 /\ hist[2].v[0] = 2
    /\ hist[3].pc = Addr(hist[2].opcode) + 2
    /\ IsCall(hist[4].opcode)
    /\ IsRet(hist[5].opcode)
    /\ Last.pc = hist[4].pc + 2
    /\ \A j \in 1..6 : ~OddJump(hist[j])
    /\ pc % 2 = 0

(***************************************************************************)
(* C27.  Key wait eventually completes.  When the last cycle ran Fx0A on a *)
(* clear latch and the host has latched a key since, the next cycle runs   *)
(* the same Fx0A and completes it: pc ends 2 past the instruction, Vx      *)
(* holds a key that was latched and the latch is clear.  A key already     *)
(* latched when the machine first reaches an Fx0A completes it in that     *)
(* first cycle.  As the host loop keeps running cycles, a machine standing *)
(* at Fx0A with a key latched eventually stands past it.                   *)
(***************************************************************************)
\* this cycle completes the Fx0A at pc with a key that was latched
CompletesWait ==
    /\ ~panicked'
    /\ pc' = pc + 2
    /\ v'[RegX(WordAtPc)] \in Latched(keyboard)
    /\ Latched(keyboard') = {}

\* the last cycle ran the Fx0A that is at pc now and left pc on it
Spinning ==
    /\ Len(hist) >= 1
    /\ IsFx(Last.opcode, 10) /\ Last.keys = {}
    /\ pc = Last.pc

\* the Fx0A at pc has been run on a clear latch and a key is latched now
WaitReleased == Spinning /\ IsFx(WordAtPc, 10) /\ Latched(keyboard) # {}

\* the Fx0A at pc has not been run yet and a key is latched already
WaitPreLatched == ~Spinning /\ IsFx(WordAtPc, 10) /\ Latched(keyboard) # {}

\* the Fx0A that was at pc has been completed by the last cycle
WaitDone ==
    /\ Len(hist) >= 1
    /\ IsFx(Last.opcode, 10)
    /\ Last.keys # {}
    /\ ~panicked
    /\ pc = Last.pc + 2
    /\ v[RegX(Last.opcode)] \in Last.keys
    /\ Latched(keyboard) = {}

C27_KeyWaitCompletes ==
    /\ [][ (Spinning /\ Latched(keyboard') # {}) => IsFx(WordAtPc', 10) ]_vars
    /\ [][ (Cycled /\ WaitReleased) => CompletesWait ]_vars
    /\ [][ (Cycled /\ WaitPreLatched) => CompletesWait ]_vars
    /\ (loaded /\ ~panicked /\ Len(hist) < MaxCycles /\ (WaitReleased \/ WaitPreLatched))
          ~> WaitDone

\* the machine ran Fx0A twice on a clear latch, the host latched key 12, and the
\* third cycle completed the wait with V0 = 12
C27_Witness ==
    /\ Len(hist) >= 3
    /\ IsFx(hist[Len(hist) - 2].opcode, 10) /\ hist[Len(hist) - 2].keys = {}
    /\ IsFx(Before.opcode, 10) /\ Before.keys = {}
    /\ Before.pc = Last.pc
    /\ Last.keys = {12} /\ RegX(Last.opcode) = 0
    /\ WaitDone
    /\ v[0] = 12

(***************************************************************************)
(* C28.  A timer set is ticked in the same cycle.  A cycle that executes   *)
(* Fx15 (Fx18) with Vx = val and returns leaves the delay (sound) timer at *)
(* max(val - 1, 0); an Fy07 in the cycle after an Fx15 with val >= 1 loads *)
(* val - 1 into Vy; and k cycles after the start of the setting cycle,     *)
(* with no other set of that timer among them, the timer is                *)
(* max(val - k, 0): positive for k < val and 0 from k = val on.            *)
(***************************************************************************)
\* cycle j of the history returned
Returned(j) == j < Len(hist) \/ ~panicked

\* the timers and the registers after cycle j of the history
DtAfter(j) == IF j < Len(hist) THEN hist[j + 1].dt ELSE dt
StAfter(j) == IF j < Len(hist) THEN hist[j + 1].st ELSE st
VAfter(j) == IF j < Len(hist) THEN hist[j + 1].v ELSE v

\* the value cycle j sets a timer to: Vx before the cycle
SetValue(j) == hist[j].v[RegX(hist[j].opcode)]

\* none of the cycles j+1 .. j+k-1 executes the instruction Fxkk
NoSetAfter(j, k, kk) == \A n \in (j + 1)..(j + k - 1) : ~IsFx(hist[n].opcode, kk)

C28_TimerSet ==
    \A j \in 1..Len(hist) :
       /\ (IsFx(hist[j].opcode, 21) /\ Returned(j))
             => DtAfter(j) = Max(SetValue(j) - 1, 0)
       /\ (IsFx(hist[j].opcode, 24) /\ Returned(j))
             => StAfter(j) = Max(SetValue(j) - 1, 0)
       /\ (IsFx(hist[j].opcode, 21) /\ SetValue(j) >= 1 /\ j < Len(hist)
              /\ IsFx(hist[j + 1].opcode, 7) /\ Returned(j + 1))
             => VAfter(j + 1)[RegX(hist[j + 1].opcode)] = SetValue(j) - 1
       /\ \A k \in 1..(Len(hist) - j + 1) :
             /\ (IsFx(hist[j].opcode, 21) /\ NoSetAfter(j, k, 21) /\ Returned(j + k - 1))
                   => /\ DtAfter(j + k - 1) = Max(SetValue(j) - k, 0)
                      /\ DtAfter(j + k - 1) = 0 <=> k >= SetValue(j)
             /\ (IsFx(hist[j].opcode, 24) /\ NoSetAfter(j, k, 24) /\ Returned(j + k - 1))
                   => /\ StAfter(j + k - 1) = Max(SetValue(j) - k, 0)
                      /\ StAfter(j + k - 1) = 0 <=> k >= SetValue(j)

\* FF15 with VF = 3, then F107 loading 2 into V1; the delay timer was 2, then 1,
\* and is 0 after the third cycle counting the setting one
C28_Witness ==
    /\ Len(hist) = 4
    /\ ~panicked
    /\ hist[2].opcode = 65301 /\ hist[2].v[15] = 3
    /\ hist[3].opcode = 61703 /\ hist[3].dt = 2
    /\ hist[4].v[1] = 2 /\ hist[4].dt = 1
    /\ dt = 0


====
